---------------------------- MODULE Spec2Model ----------------------------
(***************************************************************************)
(* Model of the CICO client library (cicoapi.py) and of the caller script  *)
(* that drives it (update_checkin.py).                                     *)
(*                                                                         *)
(* Python values are records [t, s, l] with a type tag t:                  *)
(*   "None"   the None object                                              *)
(*   "str"    a string; l is its text, cut into tokens                     *)
(*   "int"    an integer; s is its numeral                                 *)
(*   "list"   a list of strings; l holds the elements                      *)
(*   "dictL"  a one-key dict {s: [l...]}                                   *)
(*   "dictS"  a one-key dict {s: l[1]}                                     *)
(* A Python dict with string keys is a sequence of [k, v] entries in       *)
(* insertion order, with no key twice.                                     *)
(***************************************************************************)
EXTENDS Integers, Sequences, FiniteSets, TLC

VARIABLES
    session,   \* the caller's session: whether it holds one, and its cookie jar
    report,    \* the caller's report descriptor, as get_report returned it
    fields,    \* the fields mapping the caller holds for set_fields
    args,      \* the id and fields arguments of the last set_fields call
    resp,      \* the response the last call received
    req,       \* the request the last call sent
    ret,       \* what the last call gave its caller
    hist       \* the descriptor's condition at resolve time, the extra
               \* condition of every get_rows call on it since, and the
               \* condition the last of these calls found

vars == <<session, report, fields, args, resp, req, ret, hist>>

(***************************************************************************)
(* Bounds of the model.                                                    *)
(***************************************************************************)
\* filter rules of one report
MaxRules == 3

\* get_rows calls on one descriptor
MaxCalls == 2

(***************************************************************************)
(* Python values.                                                          *)
(***************************************************************************)
None == [t |-> "None", s |-> "", l |-> <<>>]

Txt(tokens) == [t |-> "str", s |-> "", l |-> tokens]

Str(x) == Txt(<<x>>)

Num(numeral) == [t |-> "int", s |-> numeral, l |-> <<>>]

List(elems) == [t |-> "list", s |-> "", l |-> elems]

DictL(key, elems) == [t |-> "dictL", s |-> key, l |-> elems]

DictS(key, x) == [t |-> "dictS", s |-> key, l |-> <<x>>]

(***************************************************************************)
(* Python dicts.                                                           *)
(***************************************************************************)
EmptyDict == <<>>

DictKeys(d) == {d[i].k : i \in 1..Len(d)}

HasKey(d, key) == key \in DictKeys(d)

KeyList(d) == [i \in 1..Len(d) |-> d[i].k]

DictGet(d, key) == d[CHOOSE i \in 1..Len(d) : d[i].k = key].v

\* d[key] = val: an existing key keeps its place, a new key goes last
DictSet(d, key, val) ==
    IF HasKey(d, key)
    THEN [i \in 1..Len(d) |-> IF d[i].k = key THEN [k |-> key, v |-> val] ELSE d[i]]
    ELSE Append(d, [k |-> key, v |-> val])

\* a dst.setdefault(key, src[key]) in place of the assignment
RECURSIVE DictUpdateKeepOld(_, _)
DictUpdateKeepOld(dst, src) ==
    IF src = <<>> THEN dst
    ELSE DictUpdateKeepOld(IF HasKey(dst, Head(src).k) THEN dst
                           ELSE DictSet(dst, Head(src).k, Head(src).v),
                           Tail(src))

\* for key in src: dst[key] = src[key]
RECURSIVE DictUpdate(_, _)
DictUpdate(dst, src) ==
    IF src = <<>> THEN dst
    ELSE DictUpdate(DictSet(dst, Head(src).k, Head(src).v), Tail(src))

(***************************************************************************)
(* json.dumps: the text of a value, as a sequence of tokens.               *)
(***************************************************************************)
Quote(x) == "\"" \o x \o "\""

RECURSIVE DumpsElems(_)
DumpsElems(elems) ==
    IF elems = <<>> THEN <<>>
    ELSE IF Len(elems) = 1 THEN <<Quote(elems[1])>>
    ELSE <<Quote(elems[1]), ",">> \o DumpsElems(Tail(elems))

DumpsList(elems) == <<"[">> \o DumpsElems(elems) \o <<"]">>

\* the strings dumped here are plain ones of a single token, with nothing
\* json.dumps would escape
DumpsValue(v) ==
    CASE v.t = "None"  -> <<"null">>
      [] v.t = "str"   -> <<Quote(v.l[1])>>
      [] v.t = "int"   -> <<v.s>>
      [] v.t = "list"  -> DumpsList(v.l)
      [] v.t = "dictL" -> <<"{", Quote(v.s), ":">> \o DumpsList(v.l) \o <<"}">>
      [] v.t = "dictS" -> <<"{", Quote(v.s), ":", Quote(v.l[1]), "}">>

DumpsMember(e) == <<Quote(e.k), ":">> \o DumpsValue(e.v)

RECURSIVE DumpsMembers(_)
DumpsMembers(d) ==
    IF d = <<>> THEN <<>>
    ELSE IF Len(d) = 1 THEN DumpsMember(d[1])
    ELSE DumpsMember(d[1]) \o <<",">> \o DumpsMembers(Tail(d))

DumpsDict(d) == Txt(<<"{">> \o DumpsMembers(d) \o <<"}">>)

DumpsStrList(elems) == Txt(DumpsList(elems))

(***************************************************************************)
(* The HTTP exchange: the request a call sends, the response it receives.  *)
(***************************************************************************)
LOGIN_URL == "https://cico.isha.in/login.php"

DB_URL == "https://cico.isha.in/db2.php"

HTTP_OK == 200

Request(method, url, params, data) ==
    [method |-> method, url |-> url, params |-> params, data |-> data]

NoRequest == Request("", "", EmptyDict, EmptyDict)

\* a response: the status, the cookies it sets, and the body: whether it is
\* JSON at all and, when it is, the members the client reads from it
Response(status, cookies, parses, obj, reports, rows) ==
    [status |-> status, cookies |-> cookies, parses |-> parses,
     obj |-> obj, reports |-> reports, rows |-> rows]

NoResponse == Response(0, EmptyDict, FALSE, EmptyDict, <<>>, <<>>)

Statuses == {HTTP_OK, 401, 500}

(***************************************************************************)
(* What a call gives its caller: a returned value or a raised exception.   *)
(***************************************************************************)
Return(op, val) == [op |-> op, kind |-> "return", val |-> val, exc |-> ""]

Raise(op, exc) == [op |-> op, kind |-> "raise", val |-> None, exc |-> exc]

NoCall == [op |-> "", kind |-> "init", val |-> None, exc |-> ""]

\* the tuple login returns: (session, sid) or (None, None)
Tuple(first, second) == [t |-> "tuple", s |-> first, l |-> second]

(***************************************************************************)
(* login                                                                   *)
(***************************************************************************)
USERNAME == "userid@user.com"

PASSWORD == "password"

NoSession == [ok |-> FALSE, jar |-> EmptyDict]

\* the cookies a login response can set
CookieJars ==
    { EmptyDict,
      <<[k |-> "lang", v |-> Str("en")]>>,
      <<[k |-> "lang", v |-> Str("en")], [k |-> "PHPSESSID", v |-> Str("s1")]>> }

LoginResponses ==
    { Response(st, jar, FALSE, EmptyDict, <<>>, <<>>) : st \in Statuses, jar \in CookieJars }

LoginRequest(username, password) ==
    Request("POST", LOGIN_URL, EmptyDict,
            << [k |-> "username", v |-> Str(username)],
               [k |-> "password", v |-> Str(password)],
               [k |-> "do", v |-> Str("login")],
               [k |-> "submit", v |-> Str("Sign in")] >>)

\* what login gives for a response, the cookie jar being the response's cookies
LoginResult(r) ==
    IF r.status # HTTP_OK THEN Return("login", Tuple("None", <<>>))
    ELSE IF ~HasKey(r.cookies, "PHPSESSID") THEN Raise("login", "KeyError")
    ELSE Return("login", Tuple("session", DictGet(r.cookies, "PHPSESSID").l))

\* session, sid = cicoapi.login(USERNAME, PASSWORD), until it gives a session
Login(r) ==
    /\ ~session.ok
    /\ req' = LoginRequest(USERNAME, PASSWORD)
    /\ resp' = r
    /\ ret' = LoginResult(r)
    /\ session' = IF ret'.kind = "raise" THEN session
                  ELSE IF ret'.val.s = "None" THEN NoSession
                  ELSE [ok |-> TRUE, jar |-> r.cookies]
    /\ UNCHANGED <<report, fields, args, hist>>

(***************************************************************************)
(* get_report                                                              *)
(***************************************************************************)
ReportNames == {"Update Checkin Time"}

Rule(col, match, val) == [col |-> col, match |-> match, val |-> val]

RuleCols == {"name", "programName"}

\* the filter rules a report can carry: equality, set membership, and
\* operators the client does not translate
Rules ==
    { Rule(c, "=", Str(x)) : c \in RuleCols, x \in {"a", "b"} }
      \cup { Rule(c, "isoneof", List(l)) : c \in RuleCols, l \in {<<"a">>, <<"a", "b">>} }
      \cup { Rule(c, "contains", Str("a")) : c \in RuleCols }

RECURSIVE SeqsUpTo(_, _)
SeqsUpTo(S, n) ==
    IF n = 0 THEN {<<>>}
    ELSE LET shorter == SeqsUpTo(S, n - 1)
         IN  shorter \cup { Append(q, x) : q \in shorter, x \in S }

ReportRecord(rules, cols, db) ==
    [filterRules |-> rules, gridColNames |-> cols, db |-> db]

GridColNames == <<"name", "checkinDate", "name">>

\* responses to the report lookup whose report carries at most n of the rules
ReportResponses(rules, n) ==
    { Response(st, EmptyDict, TRUE, EmptyDict,
               <<ReportRecord(rs, GridColNames, "participants")>>, <<>>) :
        st \in {HTTP_OK, 500}, rs \in SeqsUpTo(rules, n) }
      \cup { Response(st, EmptyDict, TRUE, EmptyDict, <<>>, <<>>) : st \in {HTTP_OK, 500} }
      \cup { Response(st, EmptyDict, FALSE, EmptyDict, <<>>, <<>>) : st \in {HTTP_OK, 500} }

ReportRequest(report_name) ==
    Request("GET", DB_URL,
            << [k |-> "collname", v |-> Str("reports")],
               [k |-> "condition", v |-> Txt(<<"{\"name\": \"", report_name, "\"}">>)],
               [k |-> "rows", v |-> Num("1")] >>,
            EmptyDict)

\* {"$in": rule["val"]}
InConstraint(val) ==
    IF val.t = "list" THEN DictL("$in", val.l) ELSE DictS("$in", val.l[1])

\* the loop body with a rule kept only when its column is still free
RuleStepKeepFirst(condition, rule) ==
    IF HasKey(condition, rule.col) THEN condition
    ELSE IF rule.match = "=" THEN DictSet(condition, rule.col, rule.val)
    ELSE IF rule.match = "isoneof" THEN DictSet(condition, rule.col, InConstraint(rule.val))
    ELSE condition

\* the loop body with an else branch that copies any other rule literally
RuleStepElse(condition, rule) ==
    IF rule.match = "isoneof" THEN DictSet(condition, rule.col, InConstraint(rule.val))
    ELSE DictSet(condition, rule.col, rule.val)

\* one turn of the loop over the rules: two ifs, no else
RuleStep(condition, rule) ==
    LET c1 == IF rule.match = "=" THEN DictSet(condition, rule.col, rule.val)
              ELSE condition
    IN  IF rule.match = "isoneof" THEN DictSet(c1, rule.col, InConstraint(rule.val))
        ELSE c1

RECURSIVE NormalizeFrom(_, _)
NormalizeFrom(condition, rules) ==
    IF rules = <<>> THEN condition
    ELSE NormalizeFrom(RuleStep(condition, Head(rules)), Tail(rules))

\* report["condition"] built from rep["filterRules"]
Normalize(rules) == NormalizeFrom(EmptyDict, rules)

RECURSIVE FieldsFrom(_, _)
FieldsFrom(fs, cols) ==
    IF cols = <<>> THEN fs
    ELSE FieldsFrom(DictSet(fs, Head(cols), Num("1")), Tail(cols))

\* report["fields"] built from rep["gridColNames"]
Projection(cols) == FieldsFrom(EmptyDict, cols)

NoReport ==
    [exists |-> FALSE,
     report |-> [condition |-> EmptyDict, fields |-> EmptyDict, context |-> None,
                 rows |-> None],
     report_name |-> "", collname |-> ""]

\* the dict get_report returns; the caller has put no row count in it
Descriptor(rep, report_name) ==
    [exists |-> TRUE,
     report |-> [condition |-> Normalize(rep.filterRules),
                 fields |-> Projection(rep.gridColNames),
                 context |-> DictS("collection", rep.db),
                 rows |-> None],
     report_name |-> report_name, collname |-> rep.db]

\* the value get_report returns on success; the caller's report holds it
DescriptorValue == [t |-> "descriptor", s |-> "", l |-> <<>>]

\* what get_report gives for a response
ReportResult(r) ==
    IF r.status # HTTP_OK THEN Return("get_report", None)
    ELSE IF ~r.parses THEN Raise("get_report", "JSONDecodeError")
    ELSE IF r.reports = <<>> THEN Raise("get_report", "IndexError")
    ELSE Return("get_report", DescriptorValue)

NoHistory == [resolved |-> EmptyDict, calls |-> <<>>, before |-> EmptyDict]

\* report = cicoapi.get_report(session, report_name)
GetReport(report_name, r) ==
    /\ session.ok
    /\ req' = ReportRequest(report_name)
    /\ resp' = r
    /\ ret' = ReportResult(r)
    /\ report' = IF ret'.kind = "raise" THEN report
                 ELSE IF ret'.val = None THEN NoReport
                 ELSE Descriptor(r.reports[1], report_name)
    /\ hist' = IF ret'.kind = "raise" THEN hist
               ELSE [resolved |-> report'.report.condition, calls |-> <<>>,
                     before |-> EmptyDict]
    /\ UNCHANGED <<session, fields, args>>

(***************************************************************************)
(* convert_report and get_rows                                             *)
(***************************************************************************)
DefaultRows == "10"

\* convert_report(report, rows=10)
ConvertReport(rep, rows) ==
    << [k |-> "rows", v |-> Num(rows)],
       [k |-> "page", v |-> Num("1")],
       [k |-> "sidx", v |-> Str("_id")],
       [k |-> "sord", v |-> Str("asc")],
       [k |-> "_search", v |-> Str("false")],
       [k |-> "splice", v |-> Str("none")],
       [k |-> "hook", v |-> Str("")],
       [k |-> "hookArgs", v |-> Str("")],
       [k |-> "condition", v |-> DumpsDict(rep.condition)],
       [k |-> "fields", v |-> DumpsDict(rep.fields)],
       [k |-> "context", v |-> Txt(DumpsValue(rep.context))] >>

Entry(key, val) == [k |-> key, v |-> val]

\* the condition argument of get_rows: {} by default, or a dict of the caller
ExtraConditions ==
    { EmptyDict,
      <<Entry("name", Str("a"))>>,
      <<Entry("name", Str("b"))>>,
      <<Entry("mobile", Str("b")), Entry("name", Str("a"))>> }

RowIds == {"5f1", "5f2"}

RowsResponses ==
    { Response(HTTP_OK, EmptyDict, TRUE, EmptyDict, <<>>, rows) :
        rows \in {<<>>, <<"5f1", "5f2">>} }
      \cup { Response(500, EmptyDict, TRUE, EmptyDict, <<>>, <<"5f1">>) }
      \cup { Response(st, EmptyDict, FALSE, EmptyDict, <<>>, <<>>) : st \in {HTTP_OK, 500} }

\* report["report"]["condition"] = condition in place of the loop
MergeConditionReplace(rpt, condition) ==
    [rpt EXCEPT !.report.condition = condition]

\* report["report"] = {"condition": ...} in place of the loop
MergeConditionRebuild(rpt, condition) ==
    [rpt EXCEPT !.report = [condition |-> DictUpdate(rpt.report.condition, condition),
                            fields |-> EmptyDict, context |-> None, rows |-> None]]

\* the descriptor after the loop that copies the extra condition into it
MergeCondition(rpt, condition) ==
    [rpt EXCEPT !.report.condition = DictUpdate(rpt.report.condition, condition)]

\* convert_report called with a row count read from the descriptor
RowsDataFromSetting(rpt) ==
    ConvertReport(rpt.report,
                  IF rpt.report.rows = None THEN DefaultRows ELSE rpt.report.rows.s)

\* data = convert_report(report["report"])
RowsData(rpt) == ConvertReport(rpt.report, DefaultRows)

RowsRequest(rpt) ==
    Request("POST", DB_URL,
            << [k |-> "collname", v |-> Str(rpt.collname)],
               [k |-> "reportname", v |-> Str(rpt.report_name)] >>,
            RowsData(rpt))

\* json.loads before the status check
RowsResultParseFirst(r) ==
    IF ~r.parses THEN Raise("get_rows", "JSONDecodeError")
    ELSE IF r.status # HTTP_OK THEN Return("get_rows", None)
    ELSE Return("get_rows", List(r.rows))

\* what get_rows gives for a response
RowsResult(r) ==
    IF r.status # HTTP_OK THEN Return("get_rows", None)
    ELSE IF ~r.parses THEN Raise("get_rows", "JSONDecodeError")
    ELSE Return("get_rows", List(r.rows))

\* rows = cicoapi.get_rows(session, report, condition)
GetRows(condition, r) ==
    /\ session.ok
    /\ report.exists
    /\ Len(hist.calls) < MaxCalls
    /\ report' = MergeCondition(report, condition)
    /\ req' = RowsRequest(report')
    /\ resp' = r
    /\ ret' = RowsResult(r)
    /\ hist' = [hist EXCEPT !.calls = Append(@, condition),
                            !.before = report.report.condition]
    /\ UNCHANGED <<session, fields, args>>

\* the caller stores a row count in the descriptor it has just resolved,
\* a dict open to new keys
SetRowCount(n) ==
    /\ ret = Return("get_report", DescriptorValue)
    /\ report.report.rows # Num(n)
    /\ report' = [report EXCEPT !.report.rows = Num(n)]
    /\ UNCHANGED <<session, fields, args, resp, req, ret, hist>>

(***************************************************************************)
(* set_fields                                                              *)
(***************************************************************************)
\* the fields argument of set_fields, a dict the caller holds
FieldMaps ==
    { <<Entry("checkinDate", Str("05-07-2017 19:24:43"))>>,
      <<Entry("mobile", Str("9940641399")), Entry("_id", Str("5f9")),
        Entry("context", Str("other")), Entry("fieldnames", Str("none"))>> }

EditBodies ==
    { <<Entry("status", Str("ok"))>>,
      <<Entry("status", Str("error"))>>,
      <<Entry("status", Str("error")), Entry("message", Str("not editable"))>> }

EditResponses ==
    { Response(HTTP_OK, EmptyDict, TRUE, body, <<>>, <<>>) : body \in EditBodies }
      \cup { Response(500, EmptyDict, TRUE, <<Entry("status", Str("ok"))>>, <<>>, <<>>) }
      \cup { Response(st, EmptyDict, FALSE, EmptyDict, <<>>, <<>>) : st \in {HTTP_OK, 500} }

\* the request body set_fields builds
EditData(rpt, id, fs) ==
    LET data == << Entry("context", rpt.report.context),
                   Entry("keyfields", DumpsStrList(<<"_id">>)),
                   Entry("_id", Str(id)),
                   Entry("fieldnames", DumpsStrList(KeyList(fs))) >>
    IN  DictSet(DictUpdate(data, fs), "_id", Str(id))

EditRequest(rpt, id, fs) ==
    Request("POST", DB_URL,
            << Entry("collname", Str(rpt.collname)),
               Entry("reportname", Str(rpt.report_name)),
               Entry("oper", Str("edit")) >>,
            EditData(rpt, id, fs))

\* what set_fields gives for a response
EditResult(r) ==
    IF r.status # HTTP_OK THEN Return("set_fields", None)
    ELSE IF ~r.parses THEN Raise("set_fields", "JSONDecodeError")
    ELSE IF DictGet(r.obj, "status") # Str("ok")
         THEN IF ~HasKey(r.obj, "message") THEN Raise("set_fields", "KeyError")
              ELSE Return("set_fields",
                          Str(DictGet(r.obj, "status").l[1] \o ": "
                                \o DictGet(r.obj, "message").l[1]))
    ELSE Return("set_fields", DictGet(r.obj, "status"))

NoArgs == [id |-> "", fields |-> EmptyDict]

\* ret = cicoapi.set_fields(session, report, id, fields)
SetFields(id, r) ==
    /\ session.ok
    /\ report.exists
    /\ req' = EditRequest(report, id, fields)
    /\ resp' = r
    /\ ret' = EditResult(r)
    /\ args' = [id |-> id, fields |-> fields]
    /\ UNCHANGED <<session, report, fields, hist>>

\* the caller builds the fields mapping of its next set_fields call
ChooseFields(fs) ==
    /\ fields # fs
    /\ fields' = fs
    /\ UNCHANGED <<session, report, args, resp, req, ret, hist>>

(***************************************************************************)
(* The session specification: a caller script driving the library.         *)
(***************************************************************************)
Init ==
    /\ session = NoSession
    /\ report = NoReport
    /\ fields = <<Entry("checkinDate", Str("05-07-2017 19:24:43"))>>
    /\ args = NoArgs
    /\ resp = NoResponse
    /\ req = NoRequest
    /\ ret = NoCall
    /\ hist = NoHistory

RowCounts == {"25"}

\* the reports of the session: one rule at most, of three
SessionRules ==
    { Rule("name", "=", Str("a")),
      Rule("programName", "isoneof", List(<<"a", "b">>)),
      Rule("name", "contains", Str("a")) }

SessionResponses == ReportResponses(SessionRules, 1)

Next ==
    \/ \E r \in LoginResponses : Login(r)
    \/ \E n \in ReportNames, r \in SessionResponses : GetReport(n, r)
    \/ \E c \in ExtraConditions, r \in RowsResponses : GetRows(c, r)
    \/ \E n \in RowCounts : SetRowCount(n)
    \/ \E id \in RowIds, r \in EditResponses : SetFields(id, r)
    \/ \E fs \in FieldMaps : ChooseFields(fs)

Spec == Init /\ [][Next]_vars

(***************************************************************************)
(* The resolve specification: one get_report call from a session that has  *)
(* logged in, on every report of up to MaxRules rules.  resp starts as the *)
(* response the service is about to give.                                  *)
(***************************************************************************)
ResolveResponses == ReportResponses(Rules, MaxRules)

InitResolve ==
    /\ session = [ok |-> TRUE, jar |-> <<Entry("PHPSESSID", Str("s1"))>>]
    /\ report = NoReport
    /\ fields = EmptyDict
    /\ args = NoArgs
    /\ resp \in ResolveResponses
    /\ req = NoRequest
    /\ ret = NoCall
    /\ hist = NoHistory

NextResolve ==
    /\ ret = NoCall
    /\ \E n \in ReportNames : GetReport(n, resp)

SpecResolve == InitResolve /\ [][NextResolve]_vars

(***************************************************************************)
(* Reading a JSON text: the members of its top-level object.               *)
(***************************************************************************)
Depth(text, i) ==
    Cardinality({j \in 1..(i - 1) : text[j] \in {"{", "["}})
      - Cardinality({j \in 1..(i - 1) : text[j] \in {"}", "]"}})

\* the top-level object of the text has a member named key
TextHasKey(text, key) ==
    \E i \in 1..(Len(text) - 1) :
        Depth(text, i) = 1 /\ text[i] = Quote(key) /\ text[i + 1] = ":"

\* the top-level object of the text has the member key: val
TextHasMember(text, key, val) ==
    LET m == <<Quote(key), ":">> \o DumpsValue(val)
    IN  \E i \in 1..Len(text) :
            /\ Depth(text, i) = 1
            /\ i + Len(m) <= Len(text)
            /\ SubSeq(text, i, i + Len(m) - 1) = m
            /\ text[i + Len(m)] \in {",", "}"}

Max(S) == CHOOSE x \in S : \A y \in S : y <= x

(***************************************************************************)
(* Properties.                                                             *)
(***************************************************************************)

\* C1: a login whose response has status 200 returns the session and, as the
\* second value, the PHPSESSID value held in the session's cookie jar; a
\* login whose response has another status returns (None, None).
C1_LoginReturnsSessionCookie ==
    ret.op = "login" =>
        IF resp.status = HTTP_OK
        THEN /\ ret.kind = "return"
             /\ ret.val.s = "session"
             /\ session.ok
             /\ HasKey(session.jar, "PHPSESSID")
             /\ ret.val.l = DictGet(session.jar, "PHPSESSID").l
        ELSE ret = Return("login", Tuple("None", <<>>))

\* get_report has returned a descriptor
Resolved == ret = Return("get_report", DescriptorValue)

\* the filter rules of the report the service answered with
ReportRules == resp.reports[1].filterRules

SupportedRule(rule) == rule.match \in {"=", "isoneof"}

\* an equality rule as its literal value, a membership rule as {"$in": values}
ExpectedEntry(rule) ==
    IF rule.match = "=" THEN rule.val ELSE [t |-> "dictL", s |-> "$in", l |-> rule.val.l]

RuleColumns == {ReportRules[i].col : i \in DOMAIN ReportRules}

LastRuleFor(col) == ReportRules[Max({i \in DOMAIN ReportRules : ReportRules[i].col = col})]

\* C2, as claimed: when every rule uses "=" or "isoneof", the condition map
\* has as many entries as there are rules, one per rule, each in its form.
C2_OneEntryPerRule ==
    (Resolved /\ \A i \in DOMAIN ReportRules : SupportedRule(ReportRules[i])) =>
        /\ Len(report.report.condition) = Len(ReportRules)
        /\ \A i \in DOMAIN ReportRules :
              \E j \in DOMAIN report.report.condition :
                  report.report.condition[j] = Entry(ReportRules[i].col, ExpectedEntry(ReportRules[i]))

\* C2, amended: when every rule uses "=" or "isoneof", the condition map has
\* exactly one entry per column the rules name, and the entry of a column is
\* that of the last rule naming it, in its form.
C2_OneEntryPerColumn ==
    (Resolved /\ \A i \in DOMAIN ReportRules : SupportedRule(ReportRules[i])) =>
        /\ DictKeys(report.report.condition) = RuleColumns
        /\ Len(report.report.condition) = Cardinality(RuleColumns)
        /\ \A col \in RuleColumns :
              DictGet(report.report.condition, col) = ExpectedEntry(LastRuleFor(col))

\* three supported rules, two of them on one column, resolved to two entries
C2_Witness ==
    /\ Resolved
    /\ Len(ReportRules) = 3
    /\ \A i \in DOMAIN ReportRules : SupportedRule(ReportRules[i])
    /\ ReportRules[1].col = ReportRules[3].col
    /\ ReportRules[1].match = "=" /\ ReportRules[3].match = "isoneof"
    /\ ReportRules[2].col # ReportRules[1].col
    /\ Len(report.report.condition) = 2

\* C3: whenever the service answers the lookup with a report, get_report
\* returns a descriptor, and its condition map is the one the rule list gives
\* with every rule of another operator taken out.
C3_OtherOperatorsDropped ==
    (ret.op = "get_report" /\ resp.status = HTTP_OK /\ resp.parses /\ resp.reports # <<>>) =>
        /\ Resolved
        /\ report.exists
        /\ report.report.condition = Normalize(SelectSeq(ReportRules, SupportedRule))
        /\ Len(report.report.condition) <= Len(SelectSeq(ReportRules, SupportedRule))

\* a rule of another operator between two supported rules, on the column of
\* the first
C3_Witness ==
    /\ Resolved
    /\ Len(ReportRules) = 3
    /\ SupportedRule(ReportRules[1]) /\ SupportedRule(ReportRules[3])
    /\ ~SupportedRule(ReportRules[2])
    /\ ReportRules[2].col = ReportRules[1].col
    /\ ReportRules[3].col # ReportRules[1].col
    /\ Len(report.report.condition) = 2

\* a step that is a get_rows call
GetRowsStep == Len(hist'.calls) = Len(hist.calls) + 1

\* the extra condition of the last get_rows call
LastExtra == hist.calls[Len(hist.calls)]

\* the condition text of the request
SentCondition == DictGet(req.data, "condition").l

\* C4: every get_rows call sends a condition that holds every key/value pair
\* of the extra condition and every key the descriptor's condition map had
\* before the call.
C4_ExtraMergedOver ==
    ret.op = "get_rows" =>
        /\ \A i \in DOMAIN LastExtra :
              TextHasMember(SentCondition, LastExtra[i].k, LastExtra[i].v)
        /\ \A key \in DictKeys(hist.before) : TextHasKey(SentCondition, key)

\* a call whose extra condition brings a new key and overwrites no key of a
\* descriptor that resolved to one
C4_Witness ==
    /\ ret.op = "get_rows"
    /\ HasKey(hist.resolved, "programName")
    /\ hist.before = hist.resolved
    /\ Len(hist.calls) = 1
    /\ hist.calls[1] = <<Entry("mobile", Str("b")), Entry("name", Str("a"))>>
    /\ TextHasKey(SentCondition, "programName")
    /\ TextHasMember(SentCondition, "mobile", Str("b"))
    /\ TextHasMember(SentCondition, "name", Str("a"))

\* C5: on a 200 edit response carrying a status, set_fields returns "ok" when
\* the status is "ok" and the string "<status>: <message>" otherwise, also
\* when the response carries no message.
C5_EditResultString ==
    (ret.op = "set_fields" /\ resp.status = HTTP_OK /\ resp.parses /\ HasKey(resp.obj, "status")) =>
        IF DictGet(resp.obj, "status") = Str("ok")
        THEN ret = Return("set_fields", Str("ok"))
        ELSE /\ ret.kind = "return"
             /\ ret.val.t = "str"
             /\ HasKey(resp.obj, "message") =>
                  ret.val = Str(DictGet(resp.obj, "status").l[1] \o ": "
                                  \o DictGet(resp.obj, "message").l[1])

\* C6: get_report, get_rows and set_fields return None whenever the response
\* has a status other than 200, whatever its body.
C6_TransportFailureIsNull ==
    (ret.op \in {"get_report", "get_rows", "set_fields"} /\ resp.status # HTTP_OK) =>
        ret = Return(ret.op, None)

\* a get_rows call answered 500 with a body that is no JSON
C6_Witness ==
    /\ ret = Return("get_rows", None)
    /\ resp.status = 500
    /\ ~resp.parses

\* the keys supplied so far: at resolve time, or by a get_rows call
SuppliedKeys ==
    DictKeys(hist.resolved) \cup UNION {DictKeys(hist.calls[i]) : i \in DOMAIN hist.calls}

\* the value most recently supplied for a key
LastSupplied(key) ==
    LET S == {i \in DOMAIN hist.calls : HasKey(hist.calls[i], key)}
    IN  IF S = {} THEN DictGet(hist.resolved, key)
        ELSE DictGet(hist.calls[Max(S)], key)

\* C7: the descriptor's condition map holds exactly the keys supplied at
\* resolve time or by any get_rows call so far, failed calls included, each
\* with the value most recently supplied; and the last get_rows request sent
\* all of them.
C7_ConditionAccumulates ==
    report.exists =>
        /\ DictKeys(report.report.condition) = SuppliedKeys
        /\ Len(report.report.condition) = Cardinality(SuppliedKeys)
        /\ \A key \in SuppliedKeys :
              DictGet(report.report.condition, key) = LastSupplied(key)
        /\ ret.op = "get_rows" =>
              \A key \in SuppliedKeys : TextHasMember(SentCondition, key, LastSupplied(key))

\* a second call with no extra condition, answered 500, that still sends what
\* the first call passed, one key new and one overwriting the resolved value
C7_Witness ==
    /\ ret = Return("get_rows", None)
    /\ Len(hist.calls) = 2
    /\ hist.calls[1] = <<Entry("mobile", Str("b")), Entry("name", Str("a"))>>
    /\ hist.calls[2] = EmptyDict
    /\ HasKey(hist.resolved, "programName")
    /\ TextHasMember(SentCondition, "mobile", Str("b"))
    /\ TextHasKey(SentCondition, "programName")

\* a step that is a set_fields call
SetFieldsStep ==
    ret'.op = "set_fields" /\ <<req', resp', ret', args'>> # <<req, resp, ret, args>>

\* C8: a get_rows call changes nothing of the descriptor but its condition
\* map, and a set_fields call changes neither the descriptor nor the caller's
\* fields mapping.
C8_Frame ==
    [][/\ GetRowsStep =>
            /\ report'.report.fields = report.report.fields
            /\ report'.report.context = report.report.context
            /\ report'.report_name = report.report_name
            /\ report'.collname = report.collname
            /\ fields' = fields
       /\ SetFieldsStep =>
            /\ report' = report
            /\ fields' = fields]_vars

\* a set_fields call, failed, on a descriptor an earlier get_rows has extended
C8_Witness ==
    /\ ret = Return("set_fields", None)
    /\ Len(hist.calls) = 2
    /\ report.report.condition # hist.resolved
    /\ Len(report.report.fields) = 2
    /\ Len(fields) = 4
    /\ args.fields = fields

\* C9: the body of every set_fields request carries context as the JSON text
\* of the descriptor's context, keyfields as the JSON array ["_id"], _id as
\* the id argument, fieldnames as the JSON array of the keys of fields, and
\* every field of fields with its value.
C9_EditRequestShape ==
    ret.op = "set_fields" =>
        /\ DictGet(req.data, "context") = Txt(DumpsValue(report.report.context))
        /\ DictGet(req.data, "keyfields") = Txt(<<"[", Quote("_id"), "]">>)
        /\ DictGet(req.data, "_id") = Str(args.id)
        /\ DictGet(req.data, "fieldnames") = DumpsStrList(KeyList(args.fields))
        /\ \A i \in DOMAIN args.fields :
              DictGet(req.data, args.fields[i].k) = args.fields[i].v

\* the paging members of a get_rows request, but for the row limit
FirstPageById ==
    /\ DictGet(req.data, "page") = Num("1")
    /\ DictGet(req.data, "sidx") = Str("_id")
    /\ DictGet(req.data, "sord") = Str("asc")

\* C10, as claimed: a get_rows request carries the row limit 10 unless the
\* descriptor holds a row count, and then that row count.
C10_RowLimitFromSetting ==
    ret.op = "get_rows" =>
        /\ FirstPageById
        /\ DictGet(req.data, "rows") =
              IF report.report.rows = None THEN Num("10") ELSE report.report.rows

\* C10, amended: a get_rows request carries the row limit 10, whatever row
\* count the descriptor holds.
C10_RowLimitAlwaysTen ==
    ret.op = "get_rows" =>
        /\ FirstPageById
        /\ DictGet(req.data, "rows") = Num("10")

\* a request sent from a descriptor that held the row count 25
C10_Witness ==
    /\ ret.op = "get_rows"
    /\ report.report.rows = Num("25")
    /\ DictGet(req.data, "rows") = Num("10")

=============================================================================
